---- MODULE Spec2Model ----
(***************************************************************************)
(* The SSD1306 driver of gaugette/ssd1306.py: the bit-packed, column-major *)
(* frame buffer of SSD1306Virtual with its drawing primitives, and the     *)
(* command protocol of SSD1306Physical over the SPI and the I2C transport. *)
(*                                                                         *)
(* The source is Python 2: "/" on integers is floor division (\div), "%"   *)
(* by a positive number is never negative, integers are unbounded.        *)
(***************************************************************************)
EXTENDS Integers, Sequences, FiniteSets

VARIABLES buffer_rows, buffer_cols, buffer, before, last, transport, dc, bus

vars == <<buffer_rows, buffer_cols, buffer, before, last, transport, dc, bus>>

(***************************************************************************)
(* Bounds of the model.                                                    *)
(***************************************************************************)
\* buffer_rows ranges over 8, 16, .. 8 * MaxPages in the drawing specification
MaxPages == 3
\* buffer_cols ranges over 1 .. MaxCols in the drawing specification
MaxCols == 2
\* the starting buffer contents are the empty image and the seed images 1 .. MaxSeed
MaxSeed == 3
\* the longest payload handed to data() directly
MaxPayload == 70

(***************************************************************************)
(* Python's integer operators on non-negative integers.                    *)
(***************************************************************************)
RECURSIVE BitAnd(_, _)
BitAnd(a, b) ==
    IF a = 0 \/ b = 0 THEN 0
    ELSE (a % 2) * (b % 2) + 2 * BitAnd(a \div 2, b \div 2)

RECURSIVE BitOr(_, _)
BitOr(a, b) ==
    IF a = 0 THEN b
    ELSE IF b = 0 THEN a
    ELSE (IF a % 2 = 1 \/ b % 2 = 1 THEN 1 ELSE 0) + 2 * BitOr(a \div 2, b \div 2)

RECURSIVE BitXor(_, _)
BitXor(a, b) ==
    IF a = 0 THEN b
    ELSE IF b = 0 THEN a
    ELSE ((a + b) % 2) + 2 * BitXor(a \div 2, b \div 2)

Shl(a, n) == a * (2 ^ n)

Shr(a, n) == a \div (2 ^ n)

(***************************************************************************)
(* SSD1306Virtual: geometry and buffer.  A buffer is a function on         *)
(* 0 .. n-1, like the Python list.                                         *)
(***************************************************************************)
cols == 128
rows == 32
col_offset == 0
DefaultBufferRows == 64
DefaultBufferCols == 128

bytes_per_col == buffer_rows \div 8

NewBuffer(brows, bcols) == [i \in 0 .. (bcols * (brows \div 8)) - 1 |-> 0]

\* list[i]: a negative index counts from the end; outside -n .. n-1 is an IndexError
PyIndexValid(buf, i) == -Cardinality(DOMAIN buf) <= i /\ i < Cardinality(DOMAIN buf)

PyIndex(buf, i) == IF i < 0 THEN i + Cardinality(DOMAIN buf) ELSE i

clear_display(buf) == [i \in DOMAIN buf |-> 0]

Truthy(color) == color # 0

\* mutant: the set branch adds the mask instead of or-ing it
draw_fast_helper_add(buf, offset, bit_mask, color) ==
    IF Truthy(color)
    THEN [buf EXCEPT ![offset] = @ + bit_mask]
    ELSE [buf EXCEPT ![offset] = BitAnd(@, 255 - bit_mask)]

draw_fast_helper(buf, offset, bit_mask, color) ==
    IF Truthy(color)
    THEN [buf EXCEPT ![offset] = BitOr(@, bit_mask)]
    ELSE [buf EXCEPT ![offset] = BitAnd(@, 255 - bit_mask)]

\* mutant: the column stride is left out of the offset
draw_pixel_nostride(buf, x, y, color) ==
    IF x < 0 \/ x >= buffer_cols \/ y < 0 \/ y >= buffer_rows THEN buf
    ELSE LET mem_col == x
             mem_row == y \div 8
             bit_mask == Shl(1, y % 8)
             offset == mem_row + mem_col
         IN draw_fast_helper(buf, offset, bit_mask, color)

\* mutant: the row test lets y = buffer_rows through
draw_pixel_loose(buf, x, y, color) ==
    IF x < 0 \/ x >= buffer_cols \/ y < 0 \/ y > buffer_rows THEN buf
    ELSE LET mem_col == x
             mem_row == y \div 8
             bit_mask == Shl(1, y % 8)
             offset == mem_row + (buffer_rows \div 8) * mem_col
         IN draw_fast_helper(buf, offset, bit_mask, color)

draw_pixel(buf, x, y, color) ==
    IF x < 0 \/ x >= buffer_cols \/ y < 0 \/ y >= buffer_rows THEN buf
    ELSE LET mem_col == x
             mem_row == y \div 8
             bit_mask == Shl(1, y % 8)
             offset == mem_row + (buffer_rows \div 8) * mem_col
         IN draw_fast_helper(buf, offset, bit_mask, color)

\* the returned value as a sequence: << >> is None
get_pixel(buf, x, y) ==
    IF x < 0 \/ x >= buffer_cols \/ y < 0 \/ y >= buffer_rows THEN << >>
    ELSE LET mem_col == x
             mem_row == y \div 8
             offset == mem_row + (buffer_rows \div 8) * mem_col
         IN << BitAnd(Shr(buf[offset], y % 8), 1) >>

\* mutant: the mask of a short run is not trimmed at its upper end
MiniLineMask_untrimmed(bit_mask, mini_line) == bit_mask

\* line 159: the mask of a run that lies inside one byte
MiniLineMask(bit_mask, mini_line) == Shr(BitAnd(Shl(bit_mask, mini_line), 255), mini_line)

\* lines 175-180: the whole pages mem_row_start .. mem_row_end-1 of the column at xo
LineMiddle(buf, xo, mem_row_start, mem_row_end, color) ==
    [i \in DOMAIN buf |->
        IF i \in {p + xo : p \in mem_row_start .. mem_row_end - 1}
        THEN (IF Truthy(color) THEN 255 ELSE 0)
        ELSE buf[i]]

draw_fast_vline(buf, x, y, h, color) ==
    IF x < 0 \/ x >= buffer_cols \/ y < 0 \/ y + h > buffer_rows \/ h <= 0 THEN buf
    ELSE LET mem_row_start == y \div 8
             mem_row_end == (y + h) \div 8
             xo == x * (buffer_rows \div 8)
             offset == mem_row_start + xo
             bit_mask == BitAnd(Shl(255, y % 8), 255)
             mini_line == 8 - (y % 8) - h
         IN IF mini_line > 0
            THEN draw_fast_helper(buf, offset, MiniLineMask(bit_mask, mini_line), color)
            ELSE LET b1 == IF y % 8 # 0
                           THEN draw_fast_helper(buf, offset, bit_mask, color)
                           ELSE buf
                     start2 == IF y % 8 # 0 THEN mem_row_start + 1 ELSE mem_row_start
                     b2 == IF (y + h) % 8 # 0
                           THEN draw_fast_helper(b1, mem_row_end + xo,
                                                 Shr(255, 8 - ((y + h) % 8)), color)
                           ELSE b1
                 IN LineMiddle(b2, xo, start2, mem_row_end, color)

\* line 190: range(start, stop, step) with step > 0, as the sequence it yields
PyRange(start, stop, step) ==
    IF stop <= start THEN << >>
    ELSE [k \in 1 .. ((stop - start + step - 1) \div step) |-> start + (k - 1) * step]

RECURSIVE HelperLoop(_, _, _, _, _)
HelperLoop(buf, offsets, k, bit_mask, color) ==
    IF k > Len(offsets) THEN buf
    ELSE HelperLoop(draw_fast_helper(buf, offsets[k], bit_mask, color),
                    offsets, k + 1, bit_mask, color)

\* mutant: the range stops one column early
draw_fast_hline_short(buf, x, y, w, color) ==
    IF x < 0 \/ x + w > buffer_cols \/ y < 0 \/ y >= buffer_rows THEN buf
    ELSE LET mem_row == y \div 8
             bit_mask == Shl(1, y % 8)
             offsets == PyRange(mem_row + (buffer_rows \div 8) * x,
                                mem_row + (buffer_rows \div 8) * (x + w - 1),
                                buffer_rows \div 8)
         IN HelperLoop(buf, offsets, 1, bit_mask, color)

draw_fast_hline(buf, x, y, w, color) ==
    IF x < 0 \/ x + w > buffer_cols \/ y < 0 \/ y >= buffer_rows THEN buf
    ELSE LET mem_row == y \div 8
             bit_mask == Shl(1, y % 8)
             offsets == PyRange(mem_row + (buffer_rows \div 8) * x,
                                mem_row + (buffer_rows \div 8) * (x + w),
                                buffer_rows \div 8)
         IN HelperLoop(buf, offsets, 1, bit_mask, color)

\* line 202: the byte that every pass of the inner loop addresses
InvertOffset(i, j, y) == i * bytes_per_col + y

\* lines 200-201: the (i, j) pairs in the order the loops visit them
InvertPairs(x, y, w, h) ==
    LET js == PyRange(y \div 8, (y + h) \div 8, 1)
        is == PyRange(x, x + w, 1)
    IN [k \in 1 .. Len(is) * Len(js) |->
           << is[((k - 1) \div Len(js)) + 1], js[((k - 1) % Len(js)) + 1] >>]

\* the loop body from pair k on; an IndexError ends it, the bytes already
\* written stay written
RECURSIVE InvertLoop(_, _, _, _)
InvertLoop(buf, pairs, k, y) ==
    IF k > Len(pairs) THEN [buf |-> buf, raised |-> FALSE]
    ELSE LET offset == InvertOffset(pairs[k][1], pairs[k][2], y)
         IN IF ~PyIndexValid(buf, offset) THEN [buf |-> buf, raised |-> TRUE]
            ELSE InvertLoop([buf EXCEPT ![PyIndex(buf, offset)] = BitXor(@, 255)],
                            pairs, k + 1, y)

invert_rect_fast(buf, x, y, w, h) == InvertLoop(buf, InvertPairs(x, y, w, h), 1, y)

(***************************************************************************)
(* SSD1306Physical and its two transports.  A device state st is the D/C   *)
(* line, the writes the call has put on the bus so far, and the payloads   *)
(* the call has handed to data().  A bus write records the method that     *)
(* wrote it, the control value it went out with (SPI: the level of the D/C *)
(* line; I2C: the register) and its bytes.                                 *)
(***************************************************************************)
EXTERNAL_VCC == 1
SWITCH_CAP_VCC == 2
SET_MEMORY_MODE == 32
SET_COL_ADDRESS == 33
SET_START_LINE == 64
SET_CONTRAST == 129
CHARGE_PUMP == 141
SEG_REMAP == 160
DISPLAY_ALL_ON_RESUME == 164
NORMAL_DISPLAY == 166
DISPLAY_OFF == 174
DISPLAY_ON == 175
COM_SCAN_DEC == 200
SET_DISPLAY_OFFSET == 211
SET_COM_PINS == 218
SET_VCOM_DETECT == 219
SET_DISPLAY_CLOCK_DIV == 213
SET_PRECHARGE == 217
SET_MULTIPLEX == 168
MEMORY_MODE_VERT == 1
I2C_CONTROL == 0
I2C_DATA == 64
I2C_BLOCKSIZE == 32
\* wiringpi's levels of a GPIO line
LOW == 0
HIGH == 1

Write(via, ctl, bytes) == [via |-> via, ctl |-> ctl, bytes |-> bytes]

spi_command(st, bytes) ==
    [st EXCEPT !.bus = Append(@, Write("command", st.dc, bytes))]

\* mutant: the D/C line is not pulled LOW again after the write
spi_data_stuck(st, bytes) ==
    LET s1 == [st EXCEPT !.dc = HIGH, !.payloads = Append(@, bytes)]
    IN [s1 EXCEPT !.bus = Append(@, Write("data", s1.dc, bytes))]

spi_data(st, bytes) ==
    LET s1 == [st EXCEPT !.dc = HIGH, !.payloads = Append(@, bytes)]
        s2 == [s1 EXCEPT !.bus = Append(@, Write("data", s1.dc, bytes))]
    IN [s2 EXCEPT !.dc = LOW]

i2c_command(st, bytes) ==
    [st EXCEPT !.bus = Append(@, Write("command", I2C_CONTROL, bytes))]

\* line 395: zip(*[iter(list(bytes))]*I2C_BLOCKSIZE) yields the full blocks only
FullChunks(bytes) ==
    [k \in 1 .. (Len(bytes) \div I2C_BLOCKSIZE) |->
        SubSeq(bytes, I2C_BLOCKSIZE * (k - 1) + 1, I2C_BLOCKSIZE * k)]

\* mutant: the slice starts at len % I2C_BLOCKSIZE, so a payload that ends on
\* a block boundary is written a second time
Remainder_whole(bytes) ==
    SubSeq(bytes, (Len(bytes) % I2C_BLOCKSIZE) + 1, Len(bytes))

\* line 398: bytes[len(bytes) - len(bytes) % I2C_BLOCKSIZE:]
Remainder(bytes) ==
    SubSeq(bytes, Len(bytes) - (Len(bytes) % I2C_BLOCKSIZE) + 1, Len(bytes))

i2c_data(st, bytes) ==
    LET chunks == FullChunks(bytes)
        full == [k \in 1 .. Len(chunks) |-> Write("data", I2C_DATA, chunks[k])]
    IN [st EXCEPT !.payloads = Append(@, bytes),
                  !.bus = (@ \o full) \o << Write("data", I2C_DATA, Remainder(bytes)) >>]

command(st, bytes) ==
    IF transport = "spi" THEN spi_command(st, bytes) ELSE i2c_command(st, bytes)

data(st, bytes) ==
    IF transport = "spi" THEN spi_data(st, bytes) ELSE i2c_data(st, bytes)

\* mutant: the display is switched on before it is configured
BeginCommands_on_first(vcc_state) ==
    << << DISPLAY_ON >>,
       << SET_DISPLAY_CLOCK_DIV, 128 >>,
       << SET_MULTIPLEX, 31 >>,
       << SET_DISPLAY_OFFSET, 0 >>,
       << BitOr(SET_START_LINE, 0) >>,
       IF vcc_state = EXTERNAL_VCC THEN << CHARGE_PUMP, 16 >> ELSE << CHARGE_PUMP, 20 >>,
       << SET_MEMORY_MODE, 0 >>,
       << BitOr(SEG_REMAP, 1) >>,
       << COM_SCAN_DEC >>,
       << SET_COM_PINS, 2 >>,
       << SET_CONTRAST, 143 >>,
       IF vcc_state = EXTERNAL_VCC THEN << SET_PRECHARGE, 34 >> ELSE << SET_PRECHARGE, 241 >>,
       << SET_VCOM_DETECT, 64 >>,
       << DISPLAY_ALL_ON_RESUME >>,
       << NORMAL_DISPLAY >>,
       << DISPLAY_OFF >> >>

\* lines 276-297: the argument lists of begin's command() calls, in order
BeginCommands(vcc_state) ==
    << << DISPLAY_OFF >>,
       << SET_DISPLAY_CLOCK_DIV, 128 >>,
       << SET_MULTIPLEX, 31 >>,
       << SET_DISPLAY_OFFSET, 0 >>,
       << BitOr(SET_START_LINE, 0) >>,
       IF vcc_state = EXTERNAL_VCC THEN << CHARGE_PUMP, 16 >> ELSE << CHARGE_PUMP, 20 >>,
       << SET_MEMORY_MODE, 0 >>,
       << BitOr(SEG_REMAP, 1) >>,
       << COM_SCAN_DEC >>,
       << SET_COM_PINS, 2 >>,
       << SET_CONTRAST, 143 >>,
       IF vcc_state = EXTERNAL_VCC THEN << SET_PRECHARGE, 34 >> ELSE << SET_PRECHARGE, 241 >>,
       << SET_VCOM_DETECT, 64 >>,
       << DISPLAY_ALL_ON_RESUME >>,
       << NORMAL_DISPLAY >>,
       << DISPLAY_ON >> >>

RECURSIVE CommandAll(_, _, _)
CommandAll(st, cmds, k) ==
    IF k > Len(cmds) THEN st
    ELSE CommandAll(command(st, cmds[k]), cmds, k + 1)

\* reset() pulses the reset line LOW and back HIGH before the first command;
\* the line is HIGH before and after, and no byte goes out
begin(st, vcc_state) == CommandAll(st, BeginCommands(vcc_state), 1)

\* list[a:b]: negative bounds count from the end, bounds are clamped to the list
PySliceBound(n, i) ==
    IF i < 0 THEN (IF i + n < 0 THEN 0 ELSE i + n) ELSE (IF i > n THEN n ELSE i)

PySlice(buf, a, b) ==
    LET n == Cardinality(DOMAIN buf)
        lo == PySliceBound(n, a)
        hi == PySliceBound(n, b)
    IN [k \in 1 .. (IF hi > lo THEN hi - lo ELSE 0) |-> buf[lo + k - 1]]

display_cols(st, buf, start_col, count) ==
    LET s1 == command(st, << SET_MEMORY_MODE, MEMORY_MODE_VERT >>)
        s2 == command(s1, << SET_COL_ADDRESS, start_col, (start_col + count - 1) % cols >>)
        start == (col_offset + start_col) * bytes_per_col
        length == count * bytes_per_col
    IN data(s2, PySlice(buf, start, start + length))

display(st, buf) == display_cols(st, buf, 0, buffer_cols)

\* the device state a call starts from
Idle == [dc |-> dc, bus |-> << >>, payloads |-> << >>]

(***************************************************************************)
(* Starting contents.  The constructor leaves the buffer all zero; every   *)
(* other content is reached from it by draw_pixel(x, y, 1) calls.  Seed k  *)
(* is the image in which those calls lit the pixels with (x + y) % k = 0.  *)
(***************************************************************************)
Lit(k, x, y) == k > 0 /\ (x + y) % k = 0

RECURSIVE SeedByte(_, _, _, _, _)
SeedByte(k, col, page, b, acc) ==
    IF b > 7 THEN acc
    ELSE SeedByte(k, col, page, b + 1,
                  IF Lit(k, col, page * 8 + b) THEN BitOr(acc, Shl(1, b)) ELSE acc)

SeedImage(k, brows, bcols) ==
    [i \in 0 .. (bcols * (brows \div 8)) - 1 |->
        SeedByte(k, i \div (brows \div 8), i % (brows \div 8), 0, 0)]

StartImages(brows, bcols) ==
    {NewBuffer(brows, bcols)} \cup {SeedImage(k, brows, bcols) : k \in 1 .. MaxSeed}

(***************************************************************************)
(* The record of the last call.                                            *)
(***************************************************************************)
NoCall ==
    [op |-> "new", x |-> 0, y |-> 0, w |-> 0, h |-> 0, color |-> 0,
     ret |-> << >>, raised |-> FALSE, bytes |-> << >>, payloads |-> << >>]

\* a call on the buffer
Call(op, x, y, w, h, color, ret, raised) ==
    [NoCall EXCEPT !.op = op, !.x = x, !.y = y, !.w = w, !.h = h,
                   !.color = color, !.ret = ret, !.raised = raised]

\* a call on the device: its byte arguments, and the payloads it handed to data()
DevCall(op, x, w, color, bytes, payloads) ==
    [NoCall EXCEPT !.op = op, !.x = x, !.w = w, !.color = color,
                   !.bytes = bytes, !.payloads = payloads]

Colors == {0, 1}
Xs == -1 .. buffer_cols
Ys == -1 .. buffer_rows
Ws == -1 .. buffer_cols + 1
Hs == -1 .. buffer_rows + 1
InvHs == {0, 1} \cup {8 * p : p \in 1 .. bytes_per_col}

\* one call is made on the seeded buffer; clear_display may follow any call
Fresh == last.op = "new"

InitDraw ==
    /\ buffer_rows \in {8 * p : p \in 1 .. MaxPages}
    /\ buffer_cols \in 1 .. MaxCols
    /\ buffer \in StartImages(buffer_rows, buffer_cols)
    /\ before = buffer
    /\ last = NoCall
    /\ transport = "spi"
    /\ dc = LOW
    /\ bus = << >>

Frame == UNCHANGED <<buffer_rows, buffer_cols, transport, dc, bus>>

ClearDisplay ==
    /\ last.op # "clear_display"
    /\ before' = buffer
    /\ buffer' = clear_display(buffer)
    /\ last' = Call("clear_display", 0, 0, 0, 0, 0, << >>, FALSE)
    /\ Frame

DrawPixel ==
    /\ Fresh
    /\ \E x \in Xs, y \in Ys, color \in Colors :
        /\ before' = buffer
        /\ buffer' = draw_pixel(buffer, x, y, color)
        /\ last' = Call("draw_pixel", x, y, 0, 0, color, << >>, FALSE)
    /\ Frame

GetPixel ==
    /\ Fresh
    /\ \E x \in Xs, y \in Ys :
        /\ before' = buffer
        /\ buffer' = buffer
        /\ last' = Call("get_pixel", x, y, 0, 0, 0, get_pixel(buffer, x, y), FALSE)
    /\ Frame

DrawFastVline ==
    /\ Fresh
    /\ \E x \in Xs, y \in Ys, h \in Hs, color \in Colors :
        /\ before' = buffer
        /\ buffer' = draw_fast_vline(buffer, x, y, h, color)
        /\ last' = Call("draw_fast_vline", x, y, 0, h, color, << >>, FALSE)
    /\ Frame

DrawFastHline ==
    /\ Fresh
    /\ \E x \in Xs, y \in Ys, w \in Ws, color \in Colors :
        /\ before' = buffer
        /\ buffer' = draw_fast_hline(buffer, x, y, w, color)
        /\ last' = Call("draw_fast_hline", x, y, w, 0, color, << >>, FALSE)
    /\ Frame

InvertRectFast ==
    /\ Fresh
    /\ \E x \in Xs, y \in Ys, w \in Ws, h \in InvHs :
        LET r == invert_rect_fast(buffer, x, y, w, h)
        IN /\ before' = buffer
           /\ buffer' = r.buf
           /\ last' = Call("invert_rect_fast", x, y, w, h, 0, << >>, r.raised)
    /\ Frame

StartCols == {-1, 0, 1, buffer_cols - 8, buffer_cols - 1, buffer_cols}
Counts == {-1, 0, 1, 2, 16, buffer_cols, buffer_cols + 1}
VccStates == {EXTERNAL_VCC, SWITCH_CAP_VCC}
CommandArgs == {<< NORMAL_DISPLAY >>, << SET_CONTRAST, 143 >>, << SET_COL_ADDRESS, 0, 127 >>}

\* a payload of n distinct bytes
Payload(n) == [k \in 1 .. n |-> (7 * k) % 256]

DevFrame == UNCHANGED <<buffer_rows, buffer_cols, buffer, before, transport>>

Begin ==
    /\ \E vcc_state \in VccStates :
        LET st == begin(Idle, vcc_state)
        IN /\ dc' = st.dc
           /\ bus' = st.bus
           /\ last' = DevCall("begin", 0, 0, vcc_state, << >>, st.payloads)
    /\ DevFrame

DisplayCols ==
    /\ \E start_col \in StartCols, count \in Counts :
        LET st == display_cols(Idle, buffer, start_col, count)
        IN /\ dc' = st.dc
           /\ bus' = st.bus
           /\ last' = DevCall("display_cols", start_col, count, 0, << >>, st.payloads)
    /\ DevFrame

Display ==
    /\ LET st == display(Idle, buffer)
       IN /\ dc' = st.dc
          /\ bus' = st.bus
          /\ last' = DevCall("display", 0, 0, 0, << >>, st.payloads)
    /\ DevFrame

Command ==
    /\ \E bytes \in CommandArgs :
        LET st == command(Idle, bytes)
        IN /\ dc' = st.dc
           /\ bus' = st.bus
           /\ last' = DevCall("command", 0, 0, 0, bytes, st.payloads)
    /\ DevFrame

Data ==
    /\ \E n \in 0 .. MaxPayload :
        LET st == data(Idle, Payload(n))
        IN /\ dc' = st.dc
           /\ bus' = st.bus
           /\ last' = DevCall("data", 0, 0, 0, Payload(n), st.payloads)
    /\ DevFrame

\* the buffer is seeded and then only shown: the drawing calls are in Spec
InitDev ==
    /\ transport \in {"spi", "i2c"}
    /\ buffer_rows = DefaultBufferRows
    /\ buffer_cols = DefaultBufferCols
    /\ buffer \in StartImages(buffer_rows, buffer_cols)
    /\ before = buffer
    /\ last = NoCall
    /\ dc = LOW
    /\ bus = << >>

NextDev ==
    \/ Begin
    \/ DisplayCols
    \/ Display
    \/ Command
    \/ Data

SpecDev == InitDev /\ [][NextDev]_vars

\* display_cols as the one call on the seeded buffer
ShowCols ==
    /\ Fresh
    /\ DisplayCols

NextDraw ==
    \/ ClearDisplay
    \/ DrawPixel
    \/ GetPixel
    \/ DrawFastVline
    \/ DrawFastHline
    \/ InvertRectFast
    \/ ShowCols

Spec == InitDraw /\ [][NextDraw]_vars

(***************************************************************************)
(* The claims.                                                             *)
(***************************************************************************)
InBounds(x, y) == 0 <= x /\ x < buffer_cols /\ 0 <= y /\ y < buffer_rows

\* the calls draw_pixel(x, y+i, color) for i = k .. h-1, one after the other
RECURSIVE PixelColumn(_, _, _, _, _, _)
PixelColumn(buf, x, y, k, h, color) ==
    IF k >= h THEN buf
    ELSE PixelColumn(draw_pixel(buf, x, y + k, color), x, y, k + 1, h, color)

\* the calls draw_pixel(x+i, y, color) for i = k .. w-1, one after the other
RECURSIVE PixelRow(_, _, _, _, _, _)
PixelRow(buf, x, y, k, w, color) ==
    IF k >= w THEN buf
    ELSE PixelRow(draw_pixel(buf, x + k, y, color), x, y, k + 1, w, color)

\* C1: an in-bounds draw_fast_vline(x, y, h, color) with h >= 1 leaves the
\* buffer equal to the one the h calls draw_pixel(x, y+i, color) produce from
\* the same starting contents.
C1_VlineIsPixelColumn ==
    (/\ last.op = "draw_fast_vline"
     /\ 0 <= last.x /\ last.x < buffer_cols
     /\ last.y >= 0 /\ last.h >= 1 /\ last.y + last.h <= buffer_rows)
    => buffer = PixelColumn(before, last.x, last.y, 0, last.h, last.color)

\* a run of 4 pixels from row 3 on the empty image: bits 3..6 of one byte
C1_Witness ==
    /\ last.op = "draw_fast_vline"
    /\ last.x = buffer_cols - 1 /\ last.y = 3 /\ last.h = 4 /\ last.color = 1
    /\ \A i \in DOMAIN before : before[i] = 0
    /\ buffer[bytes_per_col * last.x] = 120

\* C2: display_cols(start_col, count), with start_col in [0, cols) and count
\* in [1, cols], writes the command (0x20, 0x01), then the command
\* (0x21, start_col, (start_col+count-1) mod cols), then hands data() one
\* payload of exactly count * bytes_per_col bytes.
C2_AsClaimed ==
    (/\ last.op = "display_cols"
     /\ 0 <= last.x /\ last.x < cols
     /\ 1 <= last.w /\ last.w <= cols)
    => /\ Len(bus) >= 3
       /\ bus[1] = Write("command", bus[1].ctl, << 32, 1 >>)
       /\ bus[2] = Write("command", bus[2].ctl,
                         << 33, last.x, (last.x + last.w - 1) % 128 >>)
       /\ \A k \in 3 .. Len(bus) : bus[k].via = "data"
       /\ Len(last.payloads) = 1
       /\ Len(last.payloads[1]) = last.w * bytes_per_col

\* the bytes the claim inverts: page + bytes_per_col * col for the columns
\* x .. x+w-1 and the pages y/8 .. (y+h)/8 - 1, each once
InvertAsClaimed(buf, x, y, w, h) ==
    [i \in DOMAIN buf |->
        IF \E col \in x .. x + w - 1, page \in (y \div 8) .. ((y + h) \div 8) - 1 :
               i = page + bytes_per_col * col
        THEN BitXor(buf[i], 255)
        ELSE buf[i]]

\* C3: invert_rect_fast(x, y, w, h) on a rectangle inside the buffer XORs
\* with 0xFF, once, the byte of every column of [x, x+w) and every page of
\* [y/8, (y+h)/8), and changes no other byte.
C3_AsClaimed ==
    (/\ last.op = "invert_rect_fast"
     /\ last.x >= 0 /\ last.w >= 0 /\ last.x + last.w <= buffer_cols
     /\ last.y >= 0 /\ last.h >= 0 /\ last.y + last.h <= buffer_rows)
    => /\ ~last.raised
       /\ buffer = InvertAsClaimed(before, last.x, last.y, last.w, last.h)

BusBytes == [k \in 1 .. Len(bus) |-> bus[k].bytes]

BusOpcodes == [k \in 1 .. Len(bus) |-> bus[k].bytes[1]]

OtherVcc(vcc_state) == IF vcc_state = EXTERNAL_VCC THEN SWITCH_CAP_VCC ELSE EXTERNAL_VCC

\* C4: begin() writes, as commands and in this order, display-off, clock
\* divider, multiplex, display offset, start line, charge pump, memory mode
\* horizontal, segment remap, scan direction, COM pins, contrast, pre-charge,
\* VCOM detect, display-all-on-resume, normal display, display-on; between
\* the two VCC sources only the arguments of charge pump and pre-charge
\* differ; nothing is handed to data().
C4_BeginSequence ==
    last.op = "begin"
    => /\ BusOpcodes = << 174, 213, 168, 211, 64, 141, 32, 161,
                          200, 218, 129, 217, 219, 164, 166, 175 >>
       /\ bus[7].bytes = << 32, 0 >>
       /\ \A k \in 1 .. Len(bus) :
            /\ bus[k].via = "command"
            /\ bus[k].ctl = 0
       /\ last.payloads = << >>
       /\ LET other == begin(Idle, OtherVcc(last.color)).bus
          IN /\ Len(other) = Len(bus)
             /\ \A k \in 1 .. Len(bus) :
                  IF k \in {6, 12}
                  THEN /\ other[k].bytes[1] = bus[k].bytes[1]
                       /\ other[k].bytes # bus[k].bytes
                  ELSE other[k].bytes = bus[k].bytes

C4_Witness ==
    /\ last.op = "begin"
    /\ last.color = EXTERNAL_VCC
    /\ Len(bus) = 16
    /\ bus[6].bytes = << 141, 16 >>
    /\ bus[12].bytes = << 217, 34 >>

\* C5: after an in-bounds draw_pixel(x, y, color) get_pixel(x, y) returns 1
\* for a set and 0 for a cleared pixel, and get_pixel returns what it
\* returned before the call for every other in-bounds coordinate.
C5_SetThenGet ==
    (last.op = "draw_pixel" /\ InBounds(last.x, last.y))
    => /\ get_pixel(buffer, last.x, last.y) = << IF last.color # 0 THEN 1 ELSE 0 >>
       /\ \A x2 \in 0 .. buffer_cols - 1, y2 \in 0 .. buffer_rows - 1 :
            (x2 # last.x \/ y2 # last.y)
            => get_pixel(buffer, x2, y2) = get_pixel(before, x2, y2)

\* a pixel that draw_pixel(x, y, 1) had lit is cleared, in a column other
\* than the first of a buffer with more than one page
C5_Witness ==
    /\ last.op = "draw_pixel" /\ InBounds(last.x, last.y)
    /\ last.color = 0 /\ last.x >= 1 /\ bytes_per_col >= 2 /\ last.y >= 8
    /\ get_pixel(before, last.x, last.y) = << 1 >>
    /\ get_pixel(buffer, last.x, last.y) = << 0 >>

\* C6: an in-bounds draw_fast_hline(x, y, w, color) with w >= 1 leaves the
\* buffer equal to the one the w calls draw_pixel(x+i, y, color) produce from
\* the same starting contents.
C6_HlineIsPixelRow ==
    (/\ last.op = "draw_fast_hline"
     /\ 0 <= last.y /\ last.y < buffer_rows
     /\ last.x >= 0 /\ last.w >= 1 /\ last.x + last.w <= buffer_cols)
    => buffer = PixelRow(before, last.x, last.y, 0, last.w, last.color)

C6_Witness ==
    /\ last.op = "draw_fast_hline"
    /\ last.x = 0 /\ last.w = buffer_cols /\ last.w >= 2 /\ last.y = 9 /\ last.color = 1
    /\ \A i \in DOMAIN before : before[i] = 0
    /\ \A c \in 0 .. buffer_cols - 1 : buffer[1 + bytes_per_col * c] = 2

RECURSIVE Concat(_, _)
Concat(seqs, k) == IF k > Len(seqs) THEN << >> ELSE seqs[k] \o Concat(seqs, k + 1)

\* C7: SSD1306_I2C.data(bytes) writes to register 0x40 only; every write but
\* the last has exactly 32 bytes, the last has fewer than 32, and the writes
\* joined in order are the payload.
C7_I2CChunks ==
    (transport = "i2c" /\ last.op = "data")
    => /\ Len(bus) >= 1
       /\ \A k \in 1 .. Len(bus) : bus[k].via = "data" /\ bus[k].ctl = 64
       /\ \A k \in 1 .. Len(bus) - 1 : Len(bus[k].bytes) = 32
       /\ Len(bus[Len(bus)].bytes) < 32
       /\ Concat(BusBytes, 1) = last.bytes

\* a payload of two full blocks: two writes of 32 bytes and an empty one
C7_Witness ==
    /\ transport = "i2c" /\ last.op = "data"
    /\ Len(last.bytes) = 64
    /\ Len(bus) = 3
    /\ bus[3].bytes = << >>

\* C8: on SPI the D/C line is LOW between calls; every write of command()
\* goes out with D/C LOW and every write of data() with D/C HIGH.
C8_DcDiscipline ==
    transport = "spi"
    => /\ dc = 0
       /\ \A k \in 1 .. Len(bus) :
            /\ bus[k].via = "command" => bus[k].ctl = 0
            /\ bus[k].via = "data" => bus[k].ctl = 1

C8_Witness ==
    /\ transport = "spi" /\ last.op = "display_cols"
    /\ Len(bus) = 3
    /\ bus[1].ctl = 0 /\ bus[2].ctl = 0
    /\ bus[3].via = "data" /\ bus[3].ctl = 1 /\ Len(bus[3].bytes) > 0
    /\ dc = 0

\* C9: draw_pixel outside the buffer, draw_fast_vline with x out of range,
\* y < 0, y+h > buffer_rows or h <= 0, and draw_fast_hline with x < 0,
\* x+w > buffer_cols or y out of range return normally and leave the buffer
\* as it was; get_pixel outside the buffer returns no value.
C9_OutOfBoundsNoOp ==
    /\ (last.op = "draw_pixel" /\ ~InBounds(last.x, last.y))
       => (buffer = before /\ ~last.raised)
    /\ (/\ last.op = "draw_fast_vline"
        /\ \/ last.x < 0 \/ last.x >= buffer_cols
           \/ last.y < 0 \/ last.y + last.h > buffer_rows \/ last.h <= 0)
       => (buffer = before /\ ~last.raised)
    /\ (/\ last.op = "draw_fast_hline"
        /\ \/ last.x < 0 \/ last.x + last.w > buffer_cols
           \/ last.y < 0 \/ last.y >= buffer_rows)
       => (buffer = before /\ ~last.raised)
    /\ (last.op = "get_pixel" /\ ~InBounds(last.x, last.y))
       => last.ret = << >>

\* a run that starts inside a fully lit buffer and ends one row below it
C9_Witness ==
    /\ last.op = "draw_fast_vline"
    /\ last.x = 0 /\ last.y = buffer_rows - 3 /\ last.h = 4 /\ last.color = 0
    /\ \A i \in DOMAIN before : before[i] = 255
    /\ buffer = before

\* C10: the buffer always has buffer_cols * bytes_per_col entries, each in
\* 0..255; after clear_display every entry is 0 and get_pixel returns 0 for
\* every in-bounds coordinate.
C10_BufferShape ==
    /\ DOMAIN buffer = 0 .. (buffer_cols * bytes_per_col) - 1
    /\ \A i \in DOMAIN buffer : buffer[i] \in 0 .. 255
    /\ last.op = "clear_display"
       => /\ \A i \in DOMAIN buffer : buffer[i] = 0
          /\ \A x \in 0 .. buffer_cols - 1, y \in 0 .. buffer_rows - 1 :
               get_pixel(buffer, x, y) = << 0 >>

\* clear_display after a call that inverted bytes of a lit buffer
C10_Witness ==
    /\ last.op = "clear_display"
    /\ \E i \in DOMAIN before : before[i] = 255
    /\ \E i \in DOMAIN before : before[i] = 0
    /\ \A i \in DOMAIN buffer : buffer[i] = 0

====
